---- MODULE Spec2Model ----
(***************************************************************************)
(* Model of index.ts: the Pulumi program that declares the static website  *)
(* of hasborisjohnsonresignedyet.com.                                      *)
(*                                                                         *)
(* Strings are sequences of tokens.  A token is "/" , "." or a run of      *)
(* characters that holds neither: every string operation of the program    *)
(* (concatenation, String.replace of wwwDir + "/", mime's split at the     *)
(* last "/" and the last ".") cuts only at "/" and ".", so the token view  *)
(* loses nothing.                                                          *)
(***************************************************************************)
EXTENDS Naturals, Sequences, FiniteSets, TLC

VARIABLES
    cwd,      \* process.cwd(), a string
    rootOk,   \* whether <cwd>/www exists and is a readable directory
    tree,     \* the entries below <cwd>/www
    pc,       \* the statement of index.ts about to run, or "crawling", "done", "failed"
    stack,    \* the active crawlDirectory calls: [dir, files], innermost last
    decls,    \* the resources constructed (registered) so far, in order
    created,  \* names of the resources the engine has created
    runs,     \* how many times the program has been started
    prev      \* decls at the end of the previous run

vars == <<cwd, rootOk, tree, pc, stack, decls, created, runs, prev>>

----------------------------------------------------------------------------
(* Bounds *)

MaxEntries == 4

MaxEngineEntries == 2

MaxRerunEntries == 3

MaxRuns == 2

----------------------------------------------------------------------------
(* Strings *)

Slash == "/"

Dot == "."

Str(s) == <<s>>

Range(s) == {s[i] : i \in 1..Len(s)}

Front(s) == SubSeq(s, 1, Len(s) - 1)

Last(s) == s[Len(s)]

\* JS values that are not strings
Null == "<null>"

Undefined == "<undefined>"

\* a || b
JsOr(a, b) == IF a \in {Null, Undefined, ""} THEN b ELSE a

\* s.indexOf(pat), 1-based; 0 when pat does not occur
IndexOf(s, pat) ==
    LET hits == {i \in 1..(Len(s) + 1) :
                    /\ i + Len(pat) - 1 <= Len(s)
                    /\ SubSeq(s, i, i + Len(pat) - 1) = pat}
    IN IF hits = {} THEN 0 ELSE CHOOSE i \in hits : \A j \in hits : i <= j

\* s.replace(pat, rep) with a string pattern: the first occurrence only
StringReplace(s, pat, rep) ==
    LET i == IndexOf(s, pat)
    IN IF i = 0 THEN s
       ELSE SubSeq(s, 1, i - 1) \o rep \o SubSeq(s, i + Len(pat), Len(s))

\* s.replace(/^.*<c>/, ""): what follows the last c, or s when c does not occur
AfterLast(s, cs) ==
    LET hits == {i \in 1..Len(s) : s[i] \in cs}
    IN IF hits = {} THEN s
       ELSE SubSeq(s, (CHOOSE i \in hits : \A j \in hits : j <= i) + 1, Len(s))

ToLowerCase(t) ==
    CASE t = "HTML" -> "html"
      [] t = "PAGE" -> "page"
      [] OTHER -> t

LowerStr(s) == [i \in 1..Len(s) |-> ToLowerCase(s[i])]

\* path.join(a, b) for an absolute, normalised a and a single segment b
PathJoin(a, b) ==
    IF Last(a) = Slash THEN a \o b ELSE a \o <<Slash>> \o b

----------------------------------------------------------------------------
(* The file system below the asset root *)

\* File names
IndexHtml == <<"index", Dot, "html">>

NotFoundHtml == <<"404", Dot, "html">>

SiteCss == <<"site", Dot, "css">>

LogoPng == <<"logo", Dot, "png">>

NotesZzz == <<"notes", Dot, "zzz">>

PageUpper == <<"PAGE", Dot, "HTML">>

DotHtml == <<Dot, "html">>

\* Every entry a tree may hold: its path below the asset root, and what stat
\* says of it.  "file" and "dir" are regular files and directories, "special"
\* is a socket or FIFO (neither isFile nor isDirectory), "broken" is a
\* dangling symbolic link (statSync throws), "locked" is a directory that
\* readdirSync may not list.
Universe ==
    { [rel |-> <<IndexHtml>>, kind |-> "file"],
      [rel |-> <<NotFoundHtml>>, kind |-> "file"],
      [rel |-> <<Str("css")>>, kind |-> "dir"],
      [rel |-> <<Str("css"), SiteCss>>, kind |-> "file"],
      [rel |-> <<Str("css"), DotHtml>>, kind |-> "file"],
      [rel |-> <<Str("css"), Str("img")>>, kind |-> "dir"],
      [rel |-> <<Str("css"), Str("img"), LogoPng>>, kind |-> "file"],
      [rel |-> <<Str("www")>>, kind |-> "dir"],
      [rel |-> <<Str("www"), NotesZzz>>, kind |-> "file"],
      [rel |-> <<Str("www"), PageUpper>>, kind |-> "file"],
      [rel |-> <<Str("html")>>, kind |-> "file"],
      [rel |-> <<Str("pipe")>>, kind |-> "special"],
      [rel |-> <<Str("dangling")>>, kind |-> "broken"],
      [rel |-> <<Str("locked")>>, kind |-> "locked"] }

\* A tree holds the directory of every entry it holds
Closed(t) ==
    \A e \in t : Len(e.rel) > 1 =>
        \E d \in t : d.rel = Front(e.rel) /\ d.kind = "dir"

TreesUpTo(n) == {t \in SUBSET Universe : Cardinality(t) <= n /\ Closed(t)}

Cwds == { <<Slash>>, <<Slash, "srv">> }

\* line 31
wwwDir == PathJoin(cwd, Str("www"))

RECURSIVE JoinSegments(_)
\* the segments of a relative path joined by "/"
JoinSegments(rel) ==
    IF Len(rel) = 1 THEN rel[1]
    ELSE JoinSegments(Front(rel)) \o <<Slash>> \o Last(rel)

\* the absolute path of the entry at rel
AbsPath(rel) == wwwDir \o <<Slash>> \o JoinSegments(rel)

\* what the file system holds at path p
KindAt(p) ==
    IF \E e \in tree : AbsPath(e.rel) = p
    THEN (CHOOSE e \in tree : AbsPath(e.rel) = p).kind
    ELSE "enoent"

\* faulty variant: lstatSync, which does not throw on a dangling link
StatThrows_lstat(p) == KindAt(p) = "enoent"

\* fs.statSync(p) throws
StatThrows(p) == KindAt(p) \in {"enoent", "broken"}

IsDirectory(p) == KindAt(p) \in {"dir", "locked"}

\* faulty variant: the callback runs for whatever stat returns
IsFile_always(p) == TRUE

IsFile(p) == KindAt(p) = "file"

\* fs.readdirSync(p) throws
ReaddirThrows(p) ==
    IF p = wwwDir THEN ~rootOk ELSE KindAt(p) # "dir"

\* the names fs.readdirSync(p) returns, as a set
Listing(p) ==
    IF p = wwwDir
    THEN {e.rel[1] : e \in {x \in tree : Len(x.rel) = 1}}
    ELSE {Last(e.rel) : e \in {x \in tree : Len(x.rel) > 1 /\ AbsPath(Front(x.rel)) = p}}

\* every order in which the names may come back
Orders(S) ==
    {f \in [1..Cardinality(S) -> S] : \A i, j \in 1..Cardinality(S) : f[i] = f[j] => i = j}

----------------------------------------------------------------------------
(* mime.getType *)

MimeTypes ==
    [ html |-> "text/html", css |-> "text/css", png |-> "image/png" ]

MimeGetType(path) ==
    LET last == LowerStr(AfterLast(path, {Slash, "\\"}))
        ext == LowerStr(AfterLast(last, {Dot}))
        hasPath == Len(last) < Len(path)
        hasDot == Len(ext) + 1 < Len(last)
    IN IF (hasDot \/ ~hasPath) /\ Len(ext) = 1 /\ ext[1] \in DOMAIN MimeTypes
       THEN MimeTypes[ext[1]]
       ELSE Null

----------------------------------------------------------------------------
(* Resource declarations *)

\* no provider, no parent, no key, no source
None == <<>>

Resource(name, type, refs, provider, parent) ==
    [ name |-> Str(name), type |-> type, refs |-> refs,
      provider |-> provider, parent |-> parent,
      key |-> None, contentType |-> Undefined, source |-> None, region |-> "" ]

\* what must exist before d can be created: the resources whose outputs it
\* reads, its provider and its parent
Deps(d) ==
    d.refs \cup (IF d.provider = None THEN {} ELSE {d.provider})
           \cup (IF d.parent = None THEN {} ELSE {d.parent})

BorisBucket == Resource("borisBucket", "aws:s3:Bucket", {}, None, None)

\* faulty variant: the separator after the root is left in place
RelativeFilePath_keepsSlash(filePath) == StringReplace(filePath, wwwDir, <<>>)

\* line 36
RelativeFilePath(filePath) == StringReplace(filePath, wwwDir \o <<Slash>>, <<>>)

\* faulty variant: mime's null is passed on
ContentType_null(filePath) == MimeGetType(filePath)

\* line 43
ContentType(filePath) == JsOr(MimeGetType(filePath), Undefined)

\* faulty variant: objects are named by their position in the crawl
BucketObject_byPosition(filePath) ==
    [ name |-> <<"object", ToString(Len(decls))>>, type |-> "aws:s3:BucketObject",
      refs |-> {Str("borisBucket")}, provider |-> None, parent |-> Str("borisBucket"),
      key |-> <<"object", ToString(Len(decls))>>,
      contentType |-> JsOr(MimeGetType(filePath), Undefined),
      source |-> filePath, region |-> "" ]

BucketObject(filePath) ==
    [ name |-> RelativeFilePath(filePath), type |-> "aws:s3:BucketObject",
      refs |-> {BorisBucket.name}, provider |-> None, parent |-> BorisBucket.name,
      key |-> RelativeFilePath(filePath), contentType |-> ContentType(filePath),
      source |-> filePath, region |-> "" ]

LogsBucket == Resource("boriswebsiteRequestLogs", "aws:s3:Bucket", {}, None, None)

HostedZone == Resource("boriswebsite-hotedzone", "aws:route53:Zone", {}, None, None)

EastRegion ==
    [Resource("east", "pulumi:providers:aws", {}, None, None) EXCEPT !.region = "us-east-1"]

Certificate ==
    Resource("cert", "aws:acm:Certificate", {}, EastRegion.name, None)

CertValidationRecord ==
    Resource("certValidationRecord", "aws:route53:Record",
             {Certificate.name, HostedZone.name}, None, HostedZone.name)

\* faulty variant: the validation is declared with the default provider
CertValidation_defaultProvider ==
    Resource("certValidation", "aws:acm:CertificateValidation",
             {Str("cert"), Str("certValidationRecord")}, None, None)

\* faulty variant: the validation does not read the record's fqdn
CertValidation_noRecordRef ==
    Resource("certValidation", "aws:acm:CertificateValidation",
             {Str("cert")}, Str("east"), None)

CertValidation ==
    Resource("certValidation", "aws:acm:CertificateValidation",
             {Certificate.name, CertValidationRecord.name}, EastRegion.name, None)

Cdn ==
    Resource("cdn", "aws:cloudfront:Distribution",
             {BorisBucket.name, Certificate.name, LogsBucket.name}, None, None)

ApexRecord ==
    Resource("apexRecord", "aws:route53:Record", {HostedZone.name, Cdn.name}, None, None)

----------------------------------------------------------------------------
(* The program *)

\* faulty variant: the distribution is declared before the certificate
Program_cdnBeforeCertificate ==
    << "borisBucket", "crawl", "logsBucket", "hostedZone", "eastRegion", "cdn",
       "certificate", "certValidationRecord", "certValidation", "apexRecord" >>

\* faulty variant: the logging bucket is not declared
Program_withoutLogsBucket ==
    << "borisBucket", "crawl", "hostedZone", "eastRegion", "certificate",
       "certValidationRecord", "certValidation", "cdn", "apexRecord" >>

\* the top-level statements of index.ts, in order
Program ==
    << "borisBucket", "crawl", "logsBucket", "hostedZone", "eastRegion", "certificate",
       "certValidationRecord", "certValidation", "cdn", "apexRecord" >>

After(stmt) ==
    LET i == CHOOSE k \in 1..Len(Program) : Program[k] = stmt
    IN IF i = Len(Program) THEN "done" ELSE Program[i + 1]

Init ==
    /\ cwd \in Cwds
    /\ rootOk \in BOOLEAN
    /\ tree \in TreesUpTo(MaxEntries)
    /\ ~rootOk => tree = {}
    /\ pc = Program[1]
    /\ stack = <<>>
    /\ decls = <<>>
    /\ created = {}
    /\ runs = 1
    /\ prev = <<>>

\* `new R(...)` registers the resource; the statement after it is next
Construct(d) ==
    /\ decls' = Append(decls, d)
    /\ pc' = After(pc)
    /\ UNCHANGED <<cwd, rootOk, tree, stack, created, runs, prev>>

\* an uncaught exception ends the program
Throw ==
    /\ pc' = "failed"
    /\ stack' = <<>>
    /\ UNCHANGED <<cwd, rootOk, tree, decls, created, runs, prev>>

DeclareBorisBucket ==
    /\ pc = "borisBucket"
    /\ Construct(BorisBucket)

\* crawlDirectory(wwwDir, ...): the listing of the root
CrawlCall ==
    /\ pc = "crawl"
    /\ ~ReaddirThrows(wwwDir)
    /\ \E files \in Orders(Listing(wwwDir)) :
          stack' = <<[dir |-> wwwDir, files |-> files]>>
    /\ pc' = "crawling"
    /\ UNCHANGED <<cwd, rootOk, tree, decls, created, runs, prev>>

CrawlCallThrows ==
    /\ pc = "crawl"
    /\ ReaddirThrows(wwwDir)
    /\ Throw

\* the path the loop body of the innermost call is about to visit
FilePath == Last(stack).dir \o <<Slash>> \o Head(Last(stack).files)

InLoop == pc = "crawling" /\ Last(stack).files # <<>>

\* the innermost call with the entry just visited taken off its list
Advanced ==
    [stack EXCEPT ![Len(stack)].files = Tail(@)]

\* one iteration of the loop: stat, recurse into a directory, declare a file
Visit ==
    /\ InLoop
    /\ ~StatThrows(FilePath)
    /\ IsDirectory(FilePath) => ~ReaddirThrows(FilePath)
    /\ \E files \in Orders(Listing(FilePath)) :
          stack' = IF IsDirectory(FilePath)
                   THEN Append(Advanced, [dir |-> FilePath, files |-> files])
                   ELSE Advanced
    /\ decls' = IF IsFile(FilePath) THEN Append(decls, BucketObject(FilePath)) ELSE decls
    /\ UNCHANGED <<cwd, rootOk, tree, pc, created, runs, prev>>

\* fs.statSync(filePath) throws
VisitStatThrows ==
    /\ InLoop
    /\ StatThrows(FilePath)
    /\ Throw

\* the recursive call's fs.readdirSync(filePath) throws
VisitReaddirThrows ==
    /\ InLoop
    /\ ~StatThrows(FilePath)
    /\ IsDirectory(FilePath)
    /\ ReaddirThrows(FilePath)
    /\ Throw

\* the loop of the innermost call is over: it returns
CrawlReturn ==
    /\ pc = "crawling"
    /\ Last(stack).files = <<>>
    /\ stack' = Front(stack)
    /\ pc' = IF Len(stack) = 1 THEN After("crawl") ELSE pc
    /\ UNCHANGED <<cwd, rootOk, tree, decls, created, runs, prev>>

DeclareLogsBucket ==
    /\ pc = "logsBucket"
    /\ Construct(LogsBucket)

DeclareHostedZone ==
    /\ pc = "hostedZone"
    /\ Construct(HostedZone)

DeclareEastRegion ==
    /\ pc = "eastRegion"
    /\ Construct(EastRegion)

DeclareCertificate ==
    /\ pc = "certificate"
    /\ Construct(Certificate)

DeclareCertValidationRecord ==
    /\ pc = "certValidationRecord"
    /\ Construct(CertValidationRecord)

DeclareCertValidation ==
    /\ pc = "certValidation"
    /\ Construct(CertValidation)

DeclareCdn ==
    /\ pc = "cdn"
    /\ Construct(Cdn)

DeclareApexRecord ==
    /\ pc = "apexRecord"
    /\ Construct(ApexRecord)

Step ==
    \/ DeclareBorisBucket
    \/ CrawlCall
    \/ CrawlCallThrows
    \/ Visit
    \/ VisitStatThrows
    \/ VisitReaddirThrows
    \/ CrawlReturn
    \/ DeclareLogsBucket
    \/ DeclareHostedZone
    \/ DeclareEastRegion
    \/ DeclareCertificate
    \/ DeclareCertValidationRecord
    \/ DeclareCertValidation
    \/ DeclareCdn
    \/ DeclareApexRecord

Next == Step

Spec == Init /\ [][Next]_vars

----------------------------------------------------------------------------
(* The provisioning engine: `pulumi up` creates every registered resource,  *)
(* in any order in which each comes after what it depends on                *)

EngineCreate ==
    /\ \E i \in 1..Len(decls) :
          /\ decls[i].name \notin created
          /\ Deps(decls[i]) \subseteq created
          /\ created' = created \cup {decls[i].name}
    /\ UNCHANGED <<cwd, rootOk, tree, pc, stack, decls, runs, prev>>

InitEngine == Init /\ Cardinality(tree) <= MaxEngineEntries

NextEngine == Step \/ EngineCreate

SpecEngine == InitEngine /\ [][NextEngine]_vars

----------------------------------------------------------------------------
(* Every push to main runs the program again, on the same tree *)

Rerun ==
    /\ pc \in {"done", "failed"}
    /\ runs < MaxRuns
    /\ runs' = runs + 1
    /\ prev' = decls
    /\ decls' = <<>>
    /\ stack' = <<>>
    /\ pc' = Program[1]
    /\ UNCHANGED <<cwd, rootOk, tree, created>>

InitRerun == Init /\ Cardinality(tree) <= MaxRerunEntries

NextRerun == Step \/ Rerun

SpecRerun == InitRerun /\ [][NextRerun]_vars

----------------------------------------------------------------------------
(* Properties *)

Declared == {decls[i].name : i \in 1..Len(decls)}

\* the positions of the object declarations
Objects == {i \in 1..Len(decls) : decls[i].type = "aws:s3:BucketObject"}

\* the positions of the other (skeleton) declarations
Skeleton == {i \in 1..Len(decls) : decls[i].type # "aws:s3:BucketObject"}

Files == {e \in tree : e.kind = "file"}

\* the crawl has returned normally
CrawlOver == pc \notin {"borisBucket", "crawl", "crawling", "failed"}

\* the object declarations made for the entry e
ObjectsOf(e) == {i \in Objects : decls[i].source = AbsPath(e.rel)}

\* some step of the traversal of this tree throws
FailingTree == ~rootOk \/ \E e \in tree : e.kind \in {"broken", "locked"}

\* the names of the declarations that follow the crawl
PostCrawl ==
    { Str("boriswebsiteRequestLogs"), Str("boriswebsite-hotedzone"), Str("east"),
      Str("cert"), Str("certValidationRecord"), Str("certValidation"), Str("cdn"),
      Str("apexRecord") }

\* the extension of a file name: what follows its last dot, when something
\* precedes that dot; "" when there is none
Extension(name) ==
    LET dots == {i \in 2..Len(name) : name[i] = Dot}
    IN IF dots = {} \/ Len(name) = (CHOOSE i \in dots : \A j \in dots : j <= i)
       THEN ""
       ELSE ToLowerCase(name[Len(name)])

\* the registered media type of an extension, Undefined when it has none
MediaType(ext) ==
    CASE ext = "html" -> "text/html"
      [] ext = "css" -> "text/css"
      [] ext = "png" -> "image/png"
      [] OTHER -> Undefined

\* C1: the callback declares no entry twice and nothing that is not a regular
\* file; once the crawl has returned, every regular file of the tree, at every
\* depth, has exactly one object declaration, so there are as many object
\* declarations as regular files.
C1_OneObjectPerFile ==
    /\ \A e \in tree : Cardinality(ObjectsOf(e)) <= (IF e.kind = "file" THEN 1 ELSE 0)
    /\ \A i \in Objects : \E e \in tree : i \in ObjectsOf(e)
    /\ CrawlOver =>
          /\ \A e \in Files : Cardinality(ObjectsOf(e)) = 1
          /\ Cardinality(Objects) = Cardinality(Files)

C1_Witness ==
    /\ pc = "done"
    /\ \E e \in Files : Len(e.rel) = 3 /\ Cardinality(ObjectsOf(e)) = 1
    /\ \E e \in tree : e.kind = "special"
    /\ Cardinality(Objects) = 1

\* C2: the key of a file's object declaration is the file's path relative to
\* the asset root, its segments joined by "/", with no leading "/"; two
\* object declarations never have the same key.
C2_KeyIsRelativePath ==
    /\ \A i \in Objects :
          /\ \E e \in Files :
                /\ decls[i].source = AbsPath(e.rel)
                /\ decls[i].key = JoinSegments(e.rel)
          /\ Head(decls[i].key) # Slash
    /\ \A i, j \in Objects : decls[i].key = decls[j].key => i = j

C2_Witness ==
    /\ pc = "done"
    /\ cwd = <<Slash>>
    /\ \E i \in Objects :
          /\ decls[i].source = <<Slash, "www", Slash, "www", Slash, "notes", Dot, "zzz">>
          /\ decls[i].key = <<"www", Slash, "notes", Dot, "zzz">>
    /\ \E i \in Objects : decls[i].key = <<"index", Dot, "html">>

C4_CdnAfterValidation ==
    Str("cdn") \in created =>
        Str("certValidation") \in created /\ Str("borisBucket") \in created

\* C5: the validation record reads the certificate and the zone, the
\* validation completion reads the validation record, the alias record reads
\* the distribution and the zone; so the engine creates certificate and zone
\* before the validation record, the record before the completion, and the
\* distribution before the alias record.  The finished graph holds exactly
\* one validation record and exactly one alias record.
C5_CertificateChain ==
    /\ \A i \in 1..Len(decls) :
          /\ decls[i].name = Str("certValidationRecord") =>
                {Str("cert"), Str("boriswebsite-hotedzone")} \subseteq decls[i].refs
          /\ decls[i].name = Str("certValidation") =>
                Str("certValidationRecord") \in decls[i].refs
          /\ decls[i].name = Str("apexRecord") =>
                {Str("cdn"), Str("boriswebsite-hotedzone")} \subseteq decls[i].refs
    /\ Str("certValidationRecord") \in created =>
          {Str("cert"), Str("boriswebsite-hotedzone")} \subseteq created
    /\ Str("certValidation") \in created => Str("certValidationRecord") \in created
    /\ Str("apexRecord") \in created => Str("cdn") \in created
    /\ pc = "done" =>
          /\ Cardinality({i \in Skeleton : /\ decls[i].type = "aws:route53:Record"
                                           /\ Str("cert") \in decls[i].refs}) = 1
          /\ Cardinality({i \in Skeleton : /\ decls[i].type = "aws:route53:Record"
                                           /\ Str("cdn") \in decls[i].refs}) = 1
          /\ Cardinality({i \in Skeleton : decls[i].type = "aws:route53:Record"}) = 2

C5_Witness ==
    /\ pc = "done"
    /\ Objects # {}
    /\ created = Declared

\* C6: the certificate and its validation, and no other declaration, use the
\* provider alias "east", whose region is us-east-1, whatever the tree holds.
C6_EastOnlyForCertificate ==
    /\ \A i \in 1..Len(decls) :
          /\ decls[i].provider = Str("east") <=>
                decls[i].name \in {Str("cert"), Str("certValidation")}
          /\ decls[i].provider \in {None, Str("east")}
          /\ decls[i].name = Str("east") =>
                decls[i].type = "pulumi:providers:aws" /\ decls[i].region = "us-east-1"
    /\ pc = "done" => {Str("east"), Str("cert"), Str("certValidation")} \subseteq Declared

C6_Witness ==
    /\ pc = "done"
    /\ Cardinality(Objects) = 3
    /\ \E i, j \in Skeleton :
          /\ decls[i].name = Str("cert")
          /\ decls[j].name = Str("certValidation")
          /\ decls[i].provider = Str("east")
          /\ decls[j].provider = Str("east")

\* C7: the content type of a file's object declaration is the registered
\* media type of the file's extension, and is unset (undefined: not null, not
\* empty, not a default) when the extension has none; the file's extension
\* alone decides it.
C7_ContentTypeByExtension ==
    \A i \in Objects :
        /\ decls[i].contentType \notin {Null, ""}
        /\ \A e \in Files :
              decls[i].source = AbsPath(e.rel) =>
                  decls[i].contentType = MediaType(Extension(Last(e.rel)))

C7_Witness ==
    /\ pc = "done"
    /\ \E i, j, k \in Objects :
          /\ decls[i].key = <<"www", Slash, "PAGE", Dot, "HTML">>
          /\ decls[i].contentType = "text/html"
          /\ decls[j].key = <<"www", Slash, "notes", Dot, "zzz">>
          /\ decls[j].contentType = Undefined
          /\ decls[k].key = <<"html">>
          /\ decls[k].contentType = Undefined

\* C8 (as claimed): a finished construction holds one object declaration per
\* regular file and 7 skeleton declarations.
C8_SevenSkeleton ==
    pc = "done" =>
        /\ Cardinality(Objects) = Cardinality(Files)
        /\ Cardinality(Skeleton) = 7

\* C8 (amended): a finished construction holds one object declaration per
\* regular file and 9 skeleton declarations (bucket, logging bucket, zone,
\* provider alias, certificate, validation record, validation completion,
\* distribution, alias record), the same nine for every tree.
C8_NineSkeleton ==
    pc = "done" =>
        /\ Cardinality(Objects) = Cardinality(Files)
        /\ Cardinality(Skeleton) = 9
        /\ {decls[i].name : i \in Skeleton} = {Str("borisBucket")} \cup PostCrawl

C8_Witness ==
    /\ pc = "done"
    /\ tree = { [rel |-> <<IndexHtml>>, kind |-> "file"],
                [rel |-> <<NotFoundHtml>>, kind |-> "file"],
                [rel |-> <<Str("css")>>, kind |-> "dir"],
                [rel |-> <<Str("css"), SiteCss>>, kind |-> "file"] }
    /\ {decls[i].key : i \in Objects} =
          { <<"index", Dot, "html">>, <<"404", Dot, "html">>,
            <<"css", Slash, "site", Dot, "css">> }
    /\ {decls[i].contentType : i \in Objects} = {"text/html", "text/css"}
    /\ \A i \in Objects : decls[i].parent = Str("borisBucket")
    /\ Cardinality(Skeleton) = 9

\* C9: whatever a declaration refers to (a resource whose output it reads,
\* its provider, its parent) was constructed strictly before it, at every
\* point of the pass; so no reference is unresolved and the graph has no cycle.
C9_ReferencesAreEarlier ==
    \A i \in 1..Len(decls) :
        Deps(decls[i]) \subseteq {decls[j].name : j \in 1..(i - 1)}

C9_Witness ==
    /\ pc = "done"
    /\ \E i \in Objects : i > 1 /\ decls[i].parent = decls[1].name
    /\ \E i \in Skeleton : Cardinality(Deps(decls[i])) = 3

\* C10: a second construction over the unchanged tree ends with the same set
\* of declarations as the first, in whatever order the file system lists the
\* entries in either run.
C10_SameSetOnRerun ==
    (runs >= 2 /\ pc = "done") => Range(decls) = Range(prev)

C10_Witness ==
    /\ runs = 2
    /\ pc = "done"
    /\ Cardinality(Objects) >= 2
    /\ decls # prev

====
